---------------------------- MODULE Spec2Model ----------------------------
(***************************************************************************)
(* A model of src/audio_processing.py: the link discoverer, the classifier, *)
(* the BigQuery upsert and the module-level batch loop.                     *)
(*                                                                          *)
(* Strings that the code inspects character by character (hrefs, file      *)
(* names) are sequences of one-character strings; strings it only compares *)
(* for equality (locators, labels) are TLA+ strings.                       *)
(* Loudness is a float in the code; the model carries it as a record       *)
(* [kind, v] with v in tenths of a dB, so -20.0 is -200 and -19.9 is -199. *)
(***************************************************************************)
EXTENDS Integers, Sequences, FiniteSets, Bags, TLC

VARIABLES
    \* ---- the script (lines 156-195) and what it talks to
    page,            \* the href of every <a href=...> of the page body, in document order
    pageResp,        \* what requests.get(url_to_scrape) does: raise, or a status code
    pc,              \* position of the script
    audio_links,     \* the list find_audio_links returned
    idx,             \* 1-based position of each_link in audio_links (0 before the loop)
    audio_response,  \* the response of requests.get(each_link)
    files,           \* the working directory: local path -> content
    bucket,          \* the GCS bucket: object name -> content
    error,           \* the exception that ended the script, "" while none has
    \* ---- the classifier, applied to drawn inputs
    duration_ms,
    loudness,
    classification,
    \* ---- insert_into_bigquery and the table it writes
    tableExists,     \* whether table_id exists in BigQuery
    table,           \* the rows of the table, a bag
    jobs,            \* DML query jobs started by client.query and not finished yet,
                     \* each with the existing_rows its call had seen
    wpc,             \* per caller: position inside insert_into_bigquery
    wargs,           \* per caller: the record passed to the call in progress
    existing_rows,   \* per caller: the local existing_rows (line 124)
    ncalls,          \* per caller: calls started so far
    returned,        \* the records of the last two calls that returned their message
    lost             \* how many started DML jobs ended in error

scriptVars == <<page, pageResp, pc, audio_links, idx, audio_response, files, bucket, error>>
classifyVars == <<duration_ms, loudness, classification>>
upsertVars == <<tableExists, table, jobs, wpc, wargs, existing_rows, ncalls, returned, lost>>
vars == <<scriptVars, classifyVars, upsertVars>>

(***************************************************************************)
(* Bounds of the model.                                                    *)
(***************************************************************************)
MaxLinks == 3        \* hrefs on the page
MaxCalls == 3        \* calls of insert_into_bigquery in a run, over all callers

(***************************************************************************)
(* Strings as sequences of characters.                                     *)
(***************************************************************************)
Range(s) == {s[i] : i \in 1..Len(s)}

\* str.lower() on one character, for the letters the model's hrefs use
LowerChar(c) ==
    CASE c = "M" -> "m"
      [] c = "P" -> "p"
      [] c = "O" -> "o"
      [] c = "G" -> "g"
      [] OTHER -> c

\* a plausible slip: the href is compared as written
NoLower(s) == s

\* str.lower()
Lower(s) == [i \in 1..Len(s) |-> LowerChar(s[i])]

\* str.endswith(suffix)
EndsWith(s, suffix) ==
    /\ Len(s) >= Len(suffix)
    /\ SubSeq(s, Len(s) - Len(suffix) + 1, Len(s)) = suffix

\* audio_extensions (line 22)
audio_extensions ==
    << <<".", "m", "p", "3">>, <<".", "w", "a", "v">>, <<".", "o", "g", "g">>,
       <<".", "f", "l", "a", "c">>, <<".", "a", "a", "c">> >>

\* the condition of the list comprehension (line 23)
IsAudioLink(href) ==
    \E e \in 1..Len(audio_extensions) : EndsWith(Lower(href), audio_extensions[e])

\* the list comprehension (line 23): the matching hrefs, in document order
RECURSIVE FilterAudio(_)
FilterAudio(links) ==
    IF links = <<>> THEN <<>>
    ELSE IF IsAudioLink(Head(links))
         THEN <<Head(links)>> \o FilterAudio(Tail(links))
         ELSE FilterAudio(Tail(links))

\* list(set(audio_links)) (lines 24-25): each distinct element once, in an
\* order the set's hashing decides
ListsOfSet(S) ==
    {s \in [1..Cardinality(S) -> S] : \A i, j \in 1..Cardinality(S) : s[i] = s[j] => i = j}

\* os.path.basename (line 172): what follows the last "/"
RECURSIVE basename(_)
basename(path) ==
    IF \E i \in 1..Len(path) : path[i] = "/"
    THEN basename(Tail(path))
    ELSE path

\* f'temporary_{file_name}' (line 175)
local_file_path(file_name) == <<"temporary_">> \o file_name

(***************************************************************************)
(* The pages and responses the script is run against.                      *)
(***************************************************************************)
x_mp3  == <<"x", ".", "m", "p", "3">>
y_txt  == <<"y", ".", "t", "x", "t">>
z_flac == <<"z", ".", "f", "l", "a", "c">>
a_MP3  == <<"a", ".", "M", "P", "3">>
a_mp3  == <<"a", ".", "m", "p", "3">>
d_x_mp3 == <<"d", "/", "x", ".", "m", "p", "3">>
w_wave == <<"w", ".", "w", "a", "v", "e">>
o_OgG  == <<"o", ".", "O", "g", "G">>

HrefPool == {x_mp3, y_txt, z_flac, a_MP3, a_mp3, d_x_mp3, w_wave, o_OgG}

Pages == UNION {[1..n -> HrefPool] : n \in 0..MaxLinks}

\* What requests.get does: it raises a RequestException when no response can
\* be had (the host cannot be reached, the URL has no scheme), and otherwise
\* returns a response with a status code (200, 203 and 404 here)
Unreachable == [reached |-> FALSE, status_code |-> 0]
Responses == {Unreachable} \cup {[reached |-> TRUE, status_code |-> s] : s \in {200, 203, 404}}

NoResponse == [status_code |-> 0, content |-> <<>>]
NoFiles == [p \in {} |-> <<>>]

\* response.content of a resource: the audio bytes of the link on 200 and
\* 203, the server's error document on 404
Content(link, status_code) ==
    IF status_code \in {200, 203} THEN <<"audio", link>> ELSE <<"errordoc", link>>

(***************************************************************************)
(* find_audio_links (lines 8-28).                                          *)
(***************************************************************************)
\* the test of line 19
StatusAccepted(status_code) == status_code = 200

\* the values find_audio_links(url) can return for a response that arrived
find_audio_links(resp, links) ==
    IF StatusAccepted(resp.status_code)
    THEN ListsOfSet(Range(FilterAudio(links)))
    ELSE {<<>>}

(***************************************************************************)
(* The script (lines 156-195).  It has no try/except: an exception raised  *)
(* by any call ends it, which the model records as pc = "crashed" with the *)
(* exception's name in error.                                              *)
(***************************************************************************)
\* line 163: audio_links = find_audio_links(url_to_scrape)
Discover ==
    /\ pc = "discover"
    /\ IF pageResp.reached
       THEN /\ audio_links' \in find_audio_links(pageResp, page)
            /\ pc' = "loop"
            /\ UNCHANGED error
       ELSE /\ pc' = "crashed"
            /\ error' = "RequestException"
            /\ UNCHANGED audio_links
    /\ UNCHANGED <<page, pageResp, idx, audio_response, files, bucket>>
    /\ UNCHANGED <<classifyVars, upsertVars>>

\* lines 167-169: the next each_link, and requests.get(each_link)
Download ==
    /\ pc = "loop"
    /\ idx < Len(audio_links)
    /\ idx' = idx + 1
    /\ \E r \in Responses :
          IF r.reached
          THEN /\ audio_response' =
                     [status_code |-> r.status_code,
                      content |-> Content(audio_links[idx + 1], r.status_code)]
               /\ pc' = "save"
               /\ UNCHANGED error
          ELSE /\ pc' = "crashed"
               /\ error' = "RequestException"
               /\ UNCHANGED audio_response
    /\ UNCHANGED <<page, pageResp, audio_links, files, bucket>>
    /\ UNCHANGED <<classifyVars, upsertVars>>

\* the for statement finds audio_links exhausted: the script ends
Finish ==
    /\ pc = "loop"
    /\ idx = Len(audio_links)
    /\ pc' = "done"
    /\ UNCHANGED <<page, pageResp, audio_links, idx, audio_response, files, bucket, error>>
    /\ UNCHANGED <<classifyVars, upsertVars>>

\* file_name of the current item (line 172)
file_name == basename(audio_links[idx])

\* lines 172-179: the response body is written to temporary_<file_name>,
\* whatever the status of the response
Save ==
    /\ pc = "save"
    /\ files' = [p \in DOMAIN files \cup {local_file_path(file_name)} |->
                    IF p = local_file_path(file_name)
                    THEN audio_response.content ELSE files[p]]
    /\ pc' = "upload"
    /\ UNCHANGED <<page, pageResp, audio_links, idx, audio_response, bucket, error>>
    /\ UNCHANGED <<classifyVars, upsertVars>>

\* upload_to_gcp_storage (lines 29-48): blob.upload_from_filename replaces
\* the object of that name
upload_to_gcp_storage(b, path, remote_file_name) ==
    [n \in DOMAIN b \cup {remote_file_name} |->
        IF n = remote_file_name THEN files[path] ELSE b[n]]

\* the parameters of upload_to_gcp_storage (line 29) and the positional
\* arguments the script passes it (line 182)
UploadParams == 4
UploadArgs == 3

\* Python binds a call only when every parameter without a default gets an
\* argument; otherwise the call raises TypeError before the body runs
CallBinds(nargs, nparams) == nargs = nparams

\* line 182: gcp_url = upload_to_gcp_storage(bucket_name, local_file_path, file_name)
Upload ==
    /\ pc = "upload"
    /\ IF CallBinds(UploadArgs, UploadParams)
       THEN /\ bucket' = upload_to_gcp_storage(bucket, local_file_path(file_name), file_name)
            /\ pc' = "stored"
            /\ UNCHANGED error
       ELSE /\ pc' = "crashed"
            /\ error' = "TypeError"
            /\ UNCHANGED bucket
    /\ UNCHANGED <<page, pageResp, audio_links, idx, audio_response, files>>
    /\ UNCHANGED <<classifyVars, upsertVars>>

(***************************************************************************)
(* classify_audio (lines 67-83).                                           *)
(***************************************************************************)
\* the thresholds of lines 78 and 80: 60000 ms, and -20 dB in tenths of a dB
DurationThreshold == 60000
LoudnessThreshold == -200

\* floats: a finite value (v, in tenths of a dB), negative infinity, or NaN
Finite(v) == [kind |-> "finite", v |-> v]
NegInf == [kind |-> "-inf", v |-> 0]
NaN == [kind |-> "nan", v |-> 0]

\* IEEE comparison of a float with a finite threshold: every comparison with
\* NaN is false, and -inf is below every finite value
FloatGT(x, t) == x.kind = "finite" /\ x.v > t
FloatLE(x, t) == x.kind = "-inf" \/ (x.kind = "finite" /\ x.v <= t)

\* the labels the code returns
HighEnergy == "High Energy"
LowEnergy == "Low Energy"
MediumEnergy == "Medium Energy"

\* a plausible slip: the duration bound of the first branch taken non-strict
classify_audio_le(d, l) ==
    IF d <= DurationThreshold /\ FloatGT(l, LoudnessThreshold) THEN HighEnergy
    ELSE IF d >= DurationThreshold /\ FloatLE(l, LoudnessThreshold) THEN LowEnergy
    ELSE MediumEnergy

\* a plausible slip: the duration bound of the second branch taken strict
classify_audio_gt(d, l) ==
    IF d < DurationThreshold /\ FloatGT(l, LoudnessThreshold) THEN HighEnergy
    ELSE IF d > DurationThreshold /\ FloatLE(l, LoudnessThreshold) THEN LowEnergy
    ELSE MediumEnergy

classify_audio(d, l) ==
    IF d < DurationThreshold /\ FloatGT(l, LoudnessThreshold) THEN HighEnergy
    ELSE IF d >= DurationThreshold /\ FloatLE(l, LoudnessThreshold) THEN LowEnergy
    ELSE MediumEnergy

\* the inputs the classifier is applied to
Durations == {0, 1, DurationThreshold - 1, DurationThreshold, DurationThreshold + 1, 2 * DurationThreshold}
Loudnesses ==
    {Finite(v) : v \in {-1000, LoudnessThreshold - 1, LoudnessThreshold, LoudnessThreshold + 1, -1, 0, 30}}
        \cup {NegInf, NaN}

\* classification = classify_audio(duration_ms, loudness) (line 188)
Classify ==
    /\ classification = ""
    /\ classification' = classify_audio(duration_ms, loudness)
    /\ UNCHANGED <<duration_ms, loudness>>
    /\ UNCHANGED <<scriptVars, upsertVars>>

(***************************************************************************)
(* The BigQuery table: a bag of rows, each a record of the five columns of *)
(* lines 111-115.  The table has no key: nothing in BigQuery stops two     *)
(* rows from carrying the same gcp_url.                                    *)
(***************************************************************************)
RECURSIVE SumCopies(_, _)
SumCopies(t, rows) ==
    IF rows = {} THEN 0
    ELSE LET r == CHOOSE x \in rows : TRUE
         IN  t[r] + SumCopies(t, rows \ {r})

\* SELECT COUNT(*) FROM table WHERE gcp_url = @gcp_url (line 120)
RowCount(t, gcp_url) == SumCopies(t, {r \in DOMAIN t : r.gcp_url = gcp_url})

\* INSERT INTO table (...) VALUES (...) (lines 127-130)
InsertRow(t, rec) == t (+) SetToBag({rec})

\* a plausible slip: the UPDATE without its WHERE clause, which sets the four
\* fields in every row of the table
UpdateRowsNoWhere(t, rec) ==
    LET moved(r) == [rec EXCEPT !.gcp_url = r.gcp_url]
        targets == {moved(r) : r \in DOMAIN t}
    IN  [x \in targets |-> SumCopies(t, {r \in DOMAIN t : moved(r) = x})]

\* a plausible slip: the update done as DELETE of the matching rows and one
\* INSERT, which folds duplicates into one row
UpdateRowsAsReplace(t, rec) ==
    LET hit == {r \in DOMAIN t : r.gcp_url = rec.gcp_url}
        rest == [r \in DOMAIN t \ hit |-> t[r]]
    IN  IF hit = {} THEN t ELSE rest (+) SetToBag({rec})

\* UPDATE table SET file_name, duration_ms, loudness, classification
\* WHERE gcp_url = @gcp_url (lines 132-139): every matching row gets the
\* new values, no row is added or removed
UpdateRows(t, rec) ==
    LET hit == {r \in DOMAIN t : r.gcp_url = rec.gcp_url}
        rest == [r \in DOMAIN t \ hit |-> t[r]]
    IN  IF hit = {} THEN t
        ELSE rest (+) [r \in {rec} |-> SumCopies(t, hit)]

\* the statement a DML job runs
ApplyJob(t, job) ==
    IF job.kind = "INSERT" THEN InsertRow(t, job.rec) ELSE UpdateRows(t, job.rec)

(***************************************************************************)
(* The callers of insert_into_bigquery and the records they pass.          *)
(***************************************************************************)
Writers == {"w1", "w2"}
Locators == {"L1", "L2"}

Payloads ==
    {[file_name |-> "a.mp3", duration_ms |-> DurationThreshold - 1,
      loudness |-> Finite(LoudnessThreshold + 1), classification |-> HighEnergy],
     [file_name |-> "b.mp3", duration_ms |-> DurationThreshold,
      loudness |-> Finite(LoudnessThreshold), classification |-> LowEnergy]}

Row(gcp_url, p) ==
    [gcp_url |-> gcp_url, file_name |-> p.file_name, duration_ms |-> p.duration_ms,
     loudness |-> p.loudness, classification |-> p.classification]

Records == {Row(l, p) : l \in Locators, p \in Payloads}

NoRecord == Row("", [file_name |-> "", duration_ms |-> 0, loudness |-> Finite(0), classification |-> ""])

\* the tables a run can start from: none, an empty one, or one holding a row
InitialTables ==
    {EmptyBag} \cup {SetToBag({Row("L1", p)}) : p \in Payloads}

\* the last two elements of a sequence
LastTwo(s) == IF Len(s) <= 2 THEN s ELSE SubSeq(s, Len(s) - 1, Len(s))

(***************************************************************************)
(* insert_into_bigquery (lines 86-152), one action per request it makes.   *)
(***************************************************************************)
\* the call raises: the caller is back outside the function, with no message
Raise(w) ==
    /\ wpc' = [wpc EXCEPT ![w] = "idle"]
    /\ wargs' = [wargs EXCEPT ![w] = NoRecord]
    /\ existing_rows' = [existing_rows EXCEPT ![w] = 0]

\* the calls started so far by the callers in W
RECURSIVE SumCalls(_)
SumCalls(W) ==
    IF W = {} THEN 0
    ELSE LET w == CHOOSE x \in W : TRUE
         IN  ncalls[w] + SumCalls(W \ {w})

\* a caller enters insert_into_bigquery with a record
Call(w) ==
    /\ wpc[w] = "idle"
    /\ SumCalls(Writers) < MaxCalls
    /\ \E rec \in Records : wargs' = [wargs EXCEPT ![w] = rec]
    /\ wpc' = [wpc EXCEPT ![w] = "get_table"]
    /\ ncalls' = [ncalls EXCEPT ![w] = @ + 1]
    /\ UNCHANGED <<tableExists, table, jobs, existing_rows, returned, lost>>
    /\ UNCHANGED <<scriptVars, classifyVars>>

\* lines 107-109: client.get_table raises NotFound when the table is absent
\* and can raise for other reasons when it is present; the bare except takes
\* either to the create branch
GetTable(w) ==
    /\ wpc[w] = "get_table"
    /\ \E raises \in BOOLEAN :
          /\ ~tableExists => raises
          /\ wpc' = [wpc EXCEPT ![w] = IF raises THEN "create_table" ELSE "query_count"]
    /\ UNCHANGED <<tableExists, table, jobs, wargs, existing_rows, ncalls, returned, lost>>
    /\ UNCHANGED <<scriptVars, classifyVars>>

\* a plausible slip: create_table called with exists_ok=True, so that an
\* existing table is no error and the call goes on
CreateTableExistsOk(w) ==
    /\ wpc[w] = "create_table"
    /\ tableExists' = TRUE
    /\ wpc' = [wpc EXCEPT ![w] = "query_count"]
    /\ UNCHANGED <<wargs, existing_rows>>
    /\ UNCHANGED <<table, jobs, ncalls, returned, lost>>
    /\ UNCHANGED <<scriptVars, classifyVars>>

\* lines 110-118: client.create_table raises Conflict when the table exists;
\* nothing catches it
CreateTable(w) ==
    /\ wpc[w] = "create_table"
    /\ IF tableExists
       THEN /\ Raise(w)
            /\ UNCHANGED tableExists
       ELSE /\ tableExists' = TRUE
            /\ wpc' = [wpc EXCEPT ![w] = "query_count"]
            /\ UNCHANGED <<wargs, existing_rows>>
    /\ UNCHANGED <<table, jobs, ncalls, returned, lost>>
    /\ UNCHANGED <<scriptVars, classifyVars>>

\* lines 120-124: the count query is started and query_job.result() waits
\* for it; a failed query raises out of result()
QueryCount(w) ==
    /\ wpc[w] = "query_count"
    /\ \E ok \in BOOLEAN :
          IF ok
          THEN /\ existing_rows' = [existing_rows EXCEPT ![w] = RowCount(table, wargs[w].gcp_url)]
               /\ wpc' = [wpc EXCEPT ![w] = "query_write"]
               /\ UNCHANGED wargs
          ELSE Raise(w)
    /\ UNCHANGED <<tableExists, table, jobs, ncalls, returned, lost>>
    /\ UNCHANGED <<scriptVars, classifyVars>>

\* a slip that would make the choice of statement depend on the table as it
\* is when the statement is issued
StatementNow(w) == IF RowCount(table, wargs[w].gcp_url) = 0 THEN "INSERT" ELSE "UPDATE"

\* lines 126-139: the statement is chosen from the local existing_rows
Statement(w) == IF existing_rows[w] = 0 THEN "INSERT" ELSE "UPDATE"

\* lines 141-152: client.query starts the DML job and returns the QueryJob;
\* the function does not call result() on it, so it returns its message
\* while the job is still to run.  client.query raises if the job cannot be
\* started
QueryWrite(w) ==
    /\ wpc[w] = "query_write"
    /\ \E started \in BOOLEAN :
          IF started
          THEN /\ jobs' = jobs \cup {[by |-> w, call |-> ncalls[w], seen |-> existing_rows[w],
                                     kind |-> Statement(w), rec |-> wargs[w]]}
               /\ returned' = LastTwo(Append(returned, wargs[w]))
          ELSE UNCHANGED <<jobs, returned>>
    /\ Raise(w)
    /\ UNCHANGED <<tableExists, table, ncalls, lost>>
    /\ UNCHANGED <<scriptVars, classifyVars>>

\* BigQuery finishes a started DML job: its statement is applied to the
\* table.  Jobs are independent of each other and of the client, so any
\* pending job can be the next to finish
JobDone ==
    /\ \E job \in jobs :
          /\ table' = ApplyJob(table, job)
          /\ jobs' = jobs \ {job}
    /\ UNCHANGED <<tableExists, wpc, wargs, existing_rows, ncalls, returned, lost>>
    /\ UNCHANGED <<scriptVars, classifyVars>>

\* BigQuery ends a started DML job in error: nothing is applied, and nobody
\* reads the job's state
JobError ==
    /\ \E job \in jobs : jobs' = jobs \ {job}
    /\ lost' = lost + 1
    /\ UNCHANGED <<tableExists, table, wpc, wargs, existing_rows, ncalls, returned>>
    /\ UNCHANGED <<scriptVars, classifyVars>>

(***************************************************************************)
(* Specifications.                                                         *)
(***************************************************************************)
ScriptOff ==
    /\ page = <<>>
    /\ pageResp = Unreachable
    /\ pc = "off"
    /\ audio_links = <<>>
    /\ idx = 0
    /\ audio_response = NoResponse
    /\ files = NoFiles
    /\ bucket = NoFiles
    /\ error = ""

ClassifyOff ==
    /\ duration_ms = 0
    /\ loudness = Finite(0)
    /\ classification = "off"

UpsertOff ==
    /\ tableExists = FALSE
    /\ table = EmptyBag
    /\ jobs = {}
    /\ wpc = [w \in Writers |-> "off"]
    /\ wargs = [w \in Writers |-> NoRecord]
    /\ existing_rows = [w \in Writers |-> 0]
    /\ ncalls = [w \in Writers |-> 0]
    /\ returned = <<>>
    /\ lost = 0

\* the script, run against any page and any response to the page request
Init ==
    /\ page \in Pages
    /\ pageResp \in Responses
    /\ pc = "discover"
    /\ audio_links = <<>>
    /\ idx = 0
    /\ audio_response = NoResponse
    /\ files = NoFiles
    /\ bucket = NoFiles
    /\ error = ""
    /\ ClassifyOff
    /\ UpsertOff

Next == Discover \/ Download \/ Save \/ Upload \/ Finish

Spec == Init /\ [][Next]_vars

\* the classifier, applied to drawn inputs
InitClassify ==
    /\ duration_ms \in Durations
    /\ loudness \in Loudnesses
    /\ classification = ""
    /\ ScriptOff
    /\ UpsertOff

NextClassify == Classify

SpecClassify == InitClassify /\ [][NextClassify]_vars

\* insert_into_bigquery, called by the callers in W against a table that is
\* absent or holds no duplicate
InitUpsert ==
    /\ tableExists \in BOOLEAN
    /\ table \in (IF tableExists THEN InitialTables ELSE {EmptyBag})
    /\ jobs = {}
    /\ wpc = [w \in Writers |-> "idle"]
    /\ wargs = [w \in Writers |-> NoRecord]
    /\ existing_rows = [w \in Writers |-> 0]
    /\ ncalls = [w \in Writers |-> 0]
    /\ returned = <<>>
    /\ lost = 0
    /\ ScriptOff
    /\ ClassifyOff

\* two pipeline instances writing to the same table
NextUpsert ==
    \/ \E w \in Writers : Call(w) \/ GetTable(w) \/ CreateTable(w) \/ QueryCount(w) \/ QueryWrite(w)
    \/ JobDone
    \/ JobError

SpecUpsert == InitUpsert /\ [][NextUpsert]_vars

\* a single writer making its calls one after the other
NextSingle ==
    \/ Call("w1") \/ GetTable("w1") \/ CreateTable("w1") \/ QueryCount("w1") \/ QueryWrite("w1")
    \/ JobDone
    \/ JobError

SpecSingle == InitUpsert /\ [][NextSingle]_vars

\* the object names and the temporary files the storage function is called with
ObjectNames == {basename(x_mp3), basename(a_mp3)}
TempFiles ==
    [p \in {local_file_path(n) : n \in ObjectNames} |->
        IF p = local_file_path(basename(x_mp3)) THEN Content(x_mp3, 200) ELSE Content(a_mp3, 200)]

\* upload_to_gcp_storage called with all four of its parameters bound
\* (lines 29-48): the file's content becomes the object of that name
StoreObject ==
    /\ \E path \in DOMAIN files, remote_file_name \in ObjectNames :
          bucket' = upload_to_gcp_storage(bucket, path, remote_file_name)
    /\ UNCHANGED <<page, pageResp, pc, audio_links, idx, audio_response, files, error>>
    /\ UNCHANGED <<classifyVars, upsertVars>>

\* the two services of the pipeline that persist state, the artifact store
\* and the table, used by one pipeline instance
InitServices ==
    /\ tableExists \in BOOLEAN
    /\ table \in (IF tableExists THEN InitialTables ELSE {EmptyBag})
    /\ jobs = {}
    /\ wpc = [w \in Writers |-> "idle"]
    /\ wargs = [w \in Writers |-> NoRecord]
    /\ existing_rows = [w \in Writers |-> 0]
    /\ ncalls = [w \in Writers |-> 0]
    /\ returned = <<>>
    /\ lost = 0
    /\ page = <<>>
    /\ pageResp = Unreachable
    /\ pc = "off"
    /\ audio_links = <<>>
    /\ idx = 0
    /\ audio_response = NoResponse
    /\ files = TempFiles
    /\ bucket = NoFiles
    /\ error = ""
    /\ ClassifyOff

NextServices ==
    \/ StoreObject
    \/ Call("w1") \/ GetTable("w1") \/ CreateTable("w1") \/ QueryCount("w1") \/ QueryWrite("w1")
    \/ JobDone
    \/ JobError

SpecServices == InitServices /\ [][NextServices]_vars

(***************************************************************************)
(* The claims.                                                             *)
(***************************************************************************)
Labels == {HighEnergy, LowEnergy, MediumEnergy}

\* the same letter, whatever its case
SameLetter(c, d) ==
    \/ c = d
    \/ <<c, d>> \in {<<"M", "m">>, <<"P", "p">>, <<"O", "o">>, <<"G", "g">>}
    \/ <<d, c>> \in {<<"M", "m">>, <<"P", "p">>, <<"O", "o">>, <<"G", "g">>}

\* href ends, case-insensitively, in ext
EndsInIgnoringCase(href, ext) ==
    /\ Len(href) >= Len(ext)
    /\ \A k \in 1..Len(ext) : SameLetter(href[Len(href) - Len(ext) + k], ext[k])

\* href ends, case-insensitively, in one of .mp3 .wav .ogg .flac .aac
EndsInAudioExtension(href) ==
    \E ext \in { <<".", "m", "p", "3">>, <<".", "w", "a", "v">>, <<".", "o", "g", "g">>,
                 <<".", "f", "l", "a", "c">>, <<".", "a", "a", "c">> } :
        EndsInIgnoringCase(href, ext)

\* a 2xx status
Is2xx(status_code) == status_code >= 200 /\ status_code < 300

\* no element of the list occurs twice
NoDuplicates(s) == \A i, j \in 1..Len(s) : s[i] = s[j] => i = j

\* every call has returned or raised and every started job has finished
Quiescent == jobs = {} /\ \A w \in Writers : wpc[w] = "idle"

\* C1: with a single writer and a table that starts without duplicate
\* locators, the table never holds more than one row for a gcp_url, whatever
\* upsert calls were made.  (Stated as the claim states it; violated.)
C1_AtMostOneRowPerLocator ==
    \A l \in Locators : RowCount(table, l) <= 1

\* C2: when the last two calls that returned were for the same locator with
\* different values in the other fields and no job was lost, then once
\* everything has settled the table holds exactly one row for that locator
\* and it is the record of the later call.
\* (Stated as the claim states it; violated.)
C2_LastWriteWins ==
    (/\ Quiescent
     /\ lost = 0
     /\ Len(returned) = 2
     /\ returned[1].gcp_url = returned[2].gcp_url
     /\ returned[1] # returned[2])
    => /\ RowCount(table, returned[2].gcp_url) = 1
       /\ \A r \in DOMAIN table : r.gcp_url = returned[2].gcp_url => r = returned[2]

\* C3: the count and the write are not atomic: a writer whose count query saw
\* zero rows starts an INSERT at its write step whatever has happened to the
\* table or been started by the other writer in between, so two writers that
\* both saw zero rows for a new locator both insert it.
C3_WriteDecidedByStaleCount ==
    [][\A w \in Writers :
          (wpc[w] = "query_write" /\ wpc'[w] = "idle" /\ existing_rows[w] = 0)
          => \A job \in jobs' \ jobs : job.by = w /\ job.kind = "INSERT"]_vars

\* C3 witness: each of the two writers has made one call, both jobs have
\* run, and the table holds two rows for one locator.
C3_TwoRowsAfterRace ==
    /\ \E l \in Locators : RowCount(table, l) = 2
    /\ \A w \in Writers : ncalls[w] = 1
    /\ Quiescent

\* the temporary files of the items whose processing has begun
TempFilesSoFar == {local_file_path(basename(audio_links[i])) : i \in 1..idx}

\* C4: whenever the script is between items or has ended, no temporary file
\* of an item processed so far exists.  (Stated as the claim states it;
\* violated.)
C4_TempFileRemoved ==
    pc \in {"loop", "done", "crashed"} => TempFilesSoFar \cap DOMAIN files = {}

\* C5: when the script has ended, every discovered item has been taken up:
\* no item's failure ends the batch early.  (Stated as the claim states it;
\* violated.)
C5_FailureIsolated ==
    pc \in {"done", "crashed"} => idx = Len(audio_links)

\* C6: on finite loudness the label follows the decision table, the four
\* boundary cases included, and is one of the three labels.
C6_DecisionTable ==
    (classification # "" /\ loudness.kind = "finite")
    => /\ classification \in Labels
       /\ classification = HighEnergy
            <=> (duration_ms < 60000 /\ loudness.v > -200)
       /\ classification = LowEnergy
            <=> (duration_ms >= 60000 /\ loudness.v <= -200)
       /\ classification = MediumEnergy
            <=> ~(duration_ms < 60000 /\ loudness.v > -200)
                /\ ~(duration_ms >= 60000 /\ loudness.v <= -200)
       /\ (duration_ms = 59999 /\ loudness.v = -199) => classification = HighEnergy
       /\ (duration_ms = 60000 /\ loudness.v = -200) => classification = LowEnergy
       /\ (duration_ms = 60000 /\ loudness.v = -199) => classification = MediumEnergy
       /\ (duration_ms = 59999 /\ loudness.v = -200) => classification = MediumEnergy

\* C6 witness: the classifier has labelled (60000, -20.0) Low Energy.
C6_BoundaryClassified ==
    /\ duration_ms = 60000
    /\ loudness = Finite(-200)
    /\ classification = LowEnergy

\* C7: on negative infinity the label is Low Energy from 60000 ms on and
\* Medium Energy below, and on NaN the classifier still returns a label.
C7_NonFiniteLoudness ==
    classification # ""
    => /\ loudness = NegInf =>
            classification = (IF duration_ms >= 60000 THEN LowEnergy ELSE MediumEnergy)
       /\ loudness = NaN => classification \in Labels

\* C7 witness: the classifier has labelled a silent artifact of exactly
\* 60000 ms.
C7_SilentClassified ==
    /\ loudness = NegInf
    /\ duration_ms = 60000
    /\ classification = LowEnergy

\* the page request was answered with status 200
PageFetched == pageResp.reached /\ pageResp.status_code = 200

\* C8: for a page fetched with status 200, the returned list holds exactly
\* the hrefs of the page that end, case-insensitively, in an audio
\* extension, each once; [x.mp3, y.txt, z.flac] gives {x.mp3, z.flac}.
C8_ExactlyTheAudioHrefs ==
    (pc # "discover" /\ PageFetched)
    => /\ Range(audio_links) = {h \in Range(page) : EndsInAudioExtension(h)}
       /\ NoDuplicates(audio_links)
       /\ page = <<x_mp3, y_txt, z_flac>> => Range(audio_links) = {x_mp3, z_flac}

\* C8 witness: a page with a.mp3 twice and a.MP3 once has been scanned and
\* gave two entries.
C8_DuplicateAndCaseVariant ==
    /\ pc = "loop"
    /\ PageFetched
    /\ page = <<a_mp3, a_MP3, a_mp3>>
    /\ Len(audio_links) = 2
    /\ Range(audio_links) = {a_mp3, a_MP3}

\* C9: once discovery is over: if the page was unreachable or answered with
\* a non-2xx status, nothing was raised and the list is empty, so the batch
\* has no item; if it answered with any 2xx status, the list holds the
\* matching hrefs.  (Stated as the claim states it; violated.)
C9_DiscoveryNonFatal ==
    pc # "discover"
    => IF pageResp.reached /\ Is2xx(pageResp.status_code)
       THEN Range(audio_links) = {h \in Range(page) : EndsInAudioExtension(h)}
       ELSE error = "" /\ audio_links = <<>> /\ idx = 0

\* the byte fetch of the current item did not succeed: requests.get raised,
\* or the response carries a non-2xx status
FetchFailed ==
    /\ idx >= 1
    /\ \/ (pc = "crashed" /\ error = "RequestException")
       \/ (audio_response # NoResponse /\ ~Is2xx(audio_response.status_code))

\* C10: an item whose byte fetch failed is skipped: the script is back at
\* the head of the loop for the next item, and the bucket holds no object of
\* the item's name.  (Stated as the claim states it; violated.)
C10_FailedFetchSkipsItem ==
    FetchFailed
    => /\ pc \in {"loop", "done"}
       /\ basename(audio_links[idx]) \notin DOMAIN bucket

\* C11: a call has returned its confirmation only if its statement has been
\* applied to the table: no job of a returned call is still to run, and none
\* has ended in error.  (Every job in jobs belongs to a call that returned
\* its message.)  (Stated as the claim states it; violated.)
C11_ConfirmationMeansApplied ==
    jobs = {} /\ lost = 0

\* C12: ensuring the schema is idempotent: a create is attempted only while
\* the table does not exist, a table that exists stays, and the steps that
\* ensure the schema leave the rows as they are.  (Stated as the claim
\* states it; violated.)
C12_EnsureSchemaIdempotent ==
    [][\A w \in Writers :
          (wpc[w] \in {"get_table", "create_table"} /\ wpc'[w] # wpc[w])
          => /\ wpc'[w] = "create_table" => ~tableExists
             /\ tableExists => tableExists'
             /\ table' = table]_vars

\* C19: a lookup that raises always leads to the create attempt (a lookup
\* of an absent table always raises), and a create attempt against a table
\* that exists ends the call in error: nothing is started, inserted or
\* updated, and no message is returned.
C19_LookupFailureMeansCreate ==
    [][\A w \in Writers :
          /\ (wpc[w] = "get_table" /\ wpc'[w] # wpc[w])
             => /\ wpc'[w] \in {"create_table", "query_count"}
                /\ ~tableExists => wpc'[w] = "create_table"
          /\ (wpc[w] = "create_table" /\ wpc'[w] # wpc[w] /\ tableExists)
             => /\ wpc'[w] = "idle"
                /\ jobs' = jobs
                /\ table' = table
                /\ returned' = returned
                /\ tableExists']_vars

\* C19 witness: the lookup has failed against a table that exists and holds
\* a row, and the call is about to attempt the create.
C19_CreateAttemptOnExistingTable ==
    \E w \in Writers :
        /\ wpc[w] = "create_table"
        /\ tableExists
        /\ table # EmptyBag

\* the jobs that a step applies to the table (a job that ends in error is counted in lost)
Applied == IF lost' = lost THEN jobs \ jobs' ELSE {}

\* the rows of the table for one locator
RowsOf(t, gcp_url) == [r \in {x \in DOMAIN t : x.gcp_url = gcp_url} |-> t[r]]

\* C16: a call whose count found k >= 1 rows starts an UPDATE and no INSERT,
\* and once its UPDATE has been applied exactly k rows match the locator and
\* each carries the record of the call.  (Stated as the claim states it;
\* violated.)
C16_UpdateLeavesTheKRows ==
    [][/\ \A w \in Writers :
            (wpc[w] = "query_write" /\ wpc'[w] = "idle" /\ existing_rows[w] >= 1)
            => \A job \in jobs' \ jobs : job.kind = "UPDATE"
       /\ \A job \in Applied :
            job.kind = "UPDATE"
            => /\ RowCount(table', job.rec.gcp_url) = job.seen
               /\ \A r \in DOMAIN table' : r.gcp_url = job.rec.gcp_url => r = job.rec]_vars

\* C17: the rows of a locator change only when a job of a call for that
\* locator is applied: every step leaves the rows of every other locator as
\* they were, with all five fields.
C17_OtherLocatorsUntouched ==
    [][\A l \in Locators :
          RowsOf(table', l) # RowsOf(table, l)
          => \E job \in Applied : job.rec.gcp_url = l]_vars

\* C17 witness: L2 was inserted, then L1 was upserted twice with different
\* values, the second time by an UPDATE; L2's row is as it was inserted.
C17_UpdatedBesideAnotherLocator ==
    /\ Quiescent
    /\ lost = 0
    /\ \E p, q \in Payloads :
          /\ p # q
          /\ returned = <<Row("L1", p), Row("L1", q)>>
          /\ table = SetToBag({Row("L1", q), Row("L2", q)})


\* a call of the single writer has raised: it is back outside the function
\* and has neither returned a message nor started a job
CallRaised ==
    /\ ncalls["w1"] >= 1
    /\ wpc["w1"] = "idle"
    /\ returned = <<>>
    /\ jobs = {}
    /\ lost = 0

\* C13: no step removes persisted state: the table stays in existence, the
\* number of rows of each locator never decreases, and every object of the
\* bucket is still in the bucket after the step, whether the step is a
\* success or a failure of a later call.
C13_NothingPersistedIsRemoved ==
    [][/\ tableExists => tableExists'
       /\ \A l \in Locators : RowCount(table', l) >= RowCount(table, l)
       /\ \A n \in DOMAIN bucket : n \in DOMAIN bucket']_vars

\* C13 witness: an object has been stored, the table call that followed
\* has raised, and the object and the row the table started with are still
\* there.
C13_ObjectKeptAfterFailedCall ==
    /\ CallRaised
    /\ DOMAIN bucket = {basename(x_mp3)}
    /\ bucket[basename(x_mp3)] = Content(x_mp3, 200)
    /\ RowCount(table, "L1") = 1


\* the script has ended and no request to the web server was the reason
EndedWithoutFetchFailure ==
    pc \in {"done", "crashed"} /\ error # "RequestException"

\* C14: an item whose bytes were fetched with status 200 is driven through
\* to Cleaned: once the script has ended, having met no failure of a fetch,
\* no exception was raised, the object of the last item is in the bucket
\* with the fetched content, the table holds a row, and the item's
\* temporary file is gone.  (Stated as the claim states it; violated.)
C14_HappyPathReachesCleaned ==
    (EndedWithoutFetchFailure /\ idx >= 1 /\ audio_response.status_code = 200)
    => /\ error = ""
       /\ file_name \in DOMAIN bucket
       /\ bucket[file_name] = audio_response.content
       /\ table # EmptyBag
       /\ local_file_path(file_name) \notin DOMAIN files

\* C15: the items are taken up one at a time in list order, each link once,
\* and the batch terminates after the last item: a script that has ended,
\* having met no failure of a fetch, has ended normally with every
\* discovered link taken up.  (Stated as the claim states it; violated.)
C15_EveryLinkOnceThenTermination ==
    /\ idx \in 0..Len(audio_links)
    /\ NoDuplicates(audio_links)
    /\ EndedWithoutFetchFailure => (pc = "done" /\ idx = Len(audio_links))

\* C18: two distinct links with the same base name share the temporary path
\* and the object name, and once the script has ended, having met no failure
\* of a fetch, both were processed and the bucket holds one object of that
\* name with the content of the later item.  (Stated as the claim states it;
\* violated.)
C18_SameBaseNameSameIdentity ==
    /\ basename(x_mp3) = basename(d_x_mp3)
    /\ local_file_path(basename(x_mp3)) = local_file_path(basename(d_x_mp3))
    /\ (EndedWithoutFetchFailure /\ Range(audio_links) = {x_mp3, d_x_mp3})
       => /\ idx = 2
          /\ DOMAIN bucket = {basename(x_mp3)}
          /\ bucket[basename(x_mp3)] = audio_response.content

=============================================================================
